---- MODULE Spec2Model ----
(***************************************************************************)
(* Model of mintscript.py: the build pipeline of main() together with the  *)
(* cd() / tempdir() context managers.  A run is a position (pc) in main(), *)
(* its local variables, and the process state it touches: the working      *)
(* directory, the file system, standard output and the exit code.          *)
(*                                                                         *)
(* Paths and file names are sequences of one-character strings, so that    *)
(* os.path.splitext, os.path.join and the "source%d%s" format are computed *)
(* as the library computes them.  File contents are sequences of bytes.    *)
(***************************************************************************)
EXTENDS Integers, Sequences, FiniteSets, TLC

VARIABLES
    fs,         \* file system: absolute path -> bytes of the regular file there
    dirs,       \* temporary directories that currently exist
    argv,       \* per run: the command line the process was started with
    args,       \* per run: local 'args', the parsed arguments (file, output)
    pc,         \* per run: position in main()
    oscwd,      \* per run (process): current working directory, os.getcwd()
    files,      \* per run: local 'files', the staged names
    latexcode,  \* per run: local 'latexcode'
    cwd,        \* per run: local 'cwd' of main(), captured at line 59
    dirpath,    \* per run: local 'dirpath' of tempdir()
    prevdir,    \* per run: local 'prevdir' of cd()
    idx,        \* per run: loop position (staging loop, then compile loop)
    exc,        \* per run: exception travelling out of the with block
    exitcode,   \* per run: exit status of the process, -1 while running
    stdout,     \* per run: bytes written to standard output
    ncalls,     \* per run: number of compiler invocations made
    produced,   \* per run: the PDF the compiler last left behind, NoPdf if none
    trace,      \* per run: the steps taken so far, in order
    errlog,     \* per run: the logging.error() records emitted
    invoked,    \* per run: the command lines passed to subprocess.call, in order
    access      \* the run that took the last step and the paths that step used

vars == <<fs, dirs, argv, args, pc, oscwd, files, latexcode, cwd, dirpath, prevdir,
          idx, exc, exitcode, stdout, ncalls, produced, trace, errlog, invoked,
          access>>

(***************************************************************************)
(* Bounds of the model.                                                    *)
(***************************************************************************)
MaxFiles == 2

(***************************************************************************)
(* Strings.                                                                *)
(***************************************************************************)
sep == "/"
extsep == "."

Range(s) == {s[i] : i \in 1..Len(s)}

\* s.rfind(c): the last position of c in s, 0 when c does not occur
\* (positions are 1-based here, so 0 stands for Python's -1).
rfind(s, c) ==
    IF \E i \in 1..Len(s) : s[i] = c
    THEN CHOOSE i \in 1..Len(s) : s[i] = c /\ \A j \in (i+1)..Len(s) : s[j] # c
    ELSE 0

\* os.path.splitext(p): <<root, ext>>.  The extension starts at the last dot
\* of the last path component, unless that component has only dots before it.
splitext(p) ==
    LET sepIndex == rfind(p, sep)
        dotIndex == rfind(p, extsep)
    IN  IF dotIndex > sepIndex
           /\ \E k \in (sepIndex+1)..(dotIndex-1) : p[k] # extsep
        THEN <<SubSeq(p, 1, dotIndex - 1), SubSeq(p, dotIndex, Len(p))>>
        ELSE <<p, <<>>>>

\* os.path.join(a, b) for POSIX paths.
join(a, b) ==
    IF Len(b) > 0 /\ b[1] = sep THEN b
    ELSE IF Len(a) = 0 \/ a[Len(a)] = sep THEN a \o b
    ELSE a \o <<sep>> \o b

DigitChar(d) == <<"0", "1", "2", "3", "4", "5", "6", "7", "8", "9">>[d + 1]

\* "%d" % n for n >= 0
RECURSIVE Dec(_)
Dec(n) == IF n < 10 THEN <<DigitChar(n)>> ELSE Dec(n \div 10) \o <<DigitChar(n % 10)>>

(***************************************************************************)
(* Names fixed by main().                                                  *)
(***************************************************************************)
texfile == <<"m","i","n","t","s","c","r","i","p","t",".","t","e","x">>

pdffile == SubSeq(texfile, 1, Len(texfile) - 3) \o <<"p","d","f">>

\* staged names that leave the position out
StagedNameNoIndex(i, f) == <<"s","o","u","r","c","e">> \o splitext(f)[2]

\* staged names numbered from one
StagedNameOneBased(i, f) == <<"s","o","u","r","c","e">> \o Dec(i + 1) \o splitext(f)[2]

\* "source%d%s" % (i, os.path.splitext(f)[-1]), i counted from zero
StagedName(i, f) == <<"s","o","u","r","c","e">> \o Dec(i) \o splitext(f)[2]

\* files = [... for i,f in enumerate(args.file)]
StagedNames(file) == [k \in 1..Len(file) |-> StagedName(k - 1, file[k])]

\* a compile loop that runs once more than range(2)
PassesOnceMore == 2 + 1

\* for i in range(2)
Passes == 2

\* a command line without the flag that allows embedded shell commands
commandlineNoShellEscape == <<"xelatex", "-batch", texfile>>

\* commandline = ['xelatex','-shell-escape','-batch',texfile]
commandline == <<"xelatex", "-shell-escape", "-batch", texfile>>

\* the output value that asks for standard output
Dash == <<"-">>

(***************************************************************************)
(* The collaborators that main() imports: the argument parser and the      *)
(* document assembler.  The assembler is a pure function of the options    *)
(* and the staged names; the document it returns is kept as bytes.         *)
(***************************************************************************)
parseargs(given) == [file |-> given.file, output |-> given.output]

NoArgs == [file |-> <<>>, output |-> <<>>]

latexoptions(a) == IF a.output = <<>> THEN 0 ELSE 1

buildlatex(options, names) == <<92, options>> \o [k \in 1..Len(names) |-> Len(names[k])]

(***************************************************************************)
(* The environment of a run: the caller's directory, the input files that  *)
(* may be named on the command line, the temporary directories mkdtemp may *)
(* hand out, and what the compiler may do.                                 *)
(***************************************************************************)
RunIds == {1, 2}

HomeDir == <<"/","w">>

TmpDirs == {<<"/","t","1">>, <<"/","t","2">>}

PathAC == <<"a",".","c">>
PathDBPY == <<"d","/","b",".","p","y">>
PathN == <<"n">>
PathDotH == <<".","h">>
PathOPDF == <<"o",".","p","d","f">>
PathRootRC == <<"/","r",".","c">>

InputPaths == {PathAC, PathDBPY, PathN, PathDotH, PathOPDF, PathRootRC}

\* bytes of the input file at p before the run
InputBytes(p) ==
    CASE p = PathAC -> <<1>>
      [] p = PathDBPY -> <<2, 200>>
      [] p = PathN -> <<3>>
      [] p = PathDotH -> <<4>>
      [] p = PathOPDF -> <<5>>
      [] p = PathRootRC -> <<6>>

PathXPDF == <<"x",".","p","d","f">>

\* values of args.output: absent, "-", or an explicit path
OutputOpts == {<<>>, Dash, PathXPDF, PathAC}

FileLists == UNION {[1..n -> InputPaths] : n \in 0..MaxFiles}

\* what one invocation of the compiler may do: return a status (negative when
\* a signal ended it) and leave a PDF, or none, in the current directory
Statuses == {0, 1, 3, -9}

PdfContents == {<<37, 80>>, <<37, 255>>}

NoPdf == <<>>

CompilerOutcomes == [status : Statuses, pdf : PdfContents \cup {NoPdf}]

(***************************************************************************)
(* File system and process primitives.                                     *)
(***************************************************************************)
\* os.path.isfile(p), p absolute
isfile(f, p) == p \in DOMAIN f

\* the path a process in directory d means by name p
Abs(d, p) == join(d, p)

\* the file system after p was opened for writing and data written to it
WriteFile(f, p, data) == [q \in DOMAIN f \cup {p} |-> IF q = p THEN data ELSE f[q]]

IsUnder(p, d) == Len(p) > Len(d) /\ SubSeq(p, 1, Len(d)) = d /\ p[Len(d) + 1] = sep

\* the files inside directory d
Inside(f, d) == {p \in DOMAIN f : IsUnder(p, d)}

\* the file system after shutil.rmtree(d) succeeded
RemoveTree(f, d) == [q \in {p \in DOMAIN f : ~IsUnder(p, d)} |-> f[q]]

NoExc == [kind |-> "none", code |-> 0]

\* raise SystemExit(code), as sys.exit(code) does
SystemExit(code) == [kind |-> "SystemExit", code |-> code]

\* any other exception (TypeError, AssertionError, OSError, ...)
Error == [kind |-> "Exception", code |-> 1]

\* the exit status of the process when e leaves main(): sys.exit(n) ends the
\* process with the low eight bits of n, an uncaught exception with 1
ExitStatus(e) ==
    CASE e.kind = "none" -> 0
      [] e.kind = "SystemExit" -> e.code % 256
      [] e.kind = "Exception" -> 1

\* run r read, wrote or removed the files at paths
Used(r, paths) == [run |-> r, paths |-> paths]

Event(op, n) == [op |-> op, n |-> n]

LogError(msg, path, status) == [msg |-> msg, path |-> path, status |-> status]

\* open(name).read(): the file read in text mode gives a str, and fails on
\* bytes that are not valid text
ReadText(bytes) ==
    IF \E i \in 1..Len(bytes) : bytes[i] >= 128
    THEN [ok |-> FALSE, type |-> "str", data |-> <<>>]
    ELSE [ok |-> TRUE, type |-> "str", data |-> bytes]

\* sys.stdout.buffer.write(obj): accepts bytes only, raises TypeError on a str
BufferWrite(out, obj) ==
    IF obj.type = "bytes"
    THEN [ok |-> TRUE, out |-> out \o obj.data]
    ELSE [ok |-> FALSE, out |-> out]

(***************************************************************************)
(* Initial states: run 1 is about to call main() with some argument list,  *)
(* in the caller's directory; every input path that is not chosen to be    *)
(* missing is a regular file.  Run 2 is not started.                       *)
(***************************************************************************)
InitialFiles(missing) ==
    [q \in {join(HomeDir, p) : p \in InputPaths \ missing} |->
        InputBytes(CHOOSE p \in InputPaths : join(HomeDir, p) = q)]

InitRun(started) ==
    /\ dirs = {}
    /\ args = [r \in RunIds |-> NoArgs]
    /\ pc = [r \in RunIds |-> IF r \in started THEN "main" ELSE "idle"]
    /\ oscwd = [r \in RunIds |-> HomeDir]
    /\ files = [r \in RunIds |-> <<>>]
    /\ latexcode = [r \in RunIds |-> <<>>]
    /\ cwd = [r \in RunIds |-> <<>>]
    /\ dirpath = [r \in RunIds |-> <<>>]
    /\ prevdir = [r \in RunIds |-> <<>>]
    /\ idx = [r \in RunIds |-> 0]
    /\ exc = [r \in RunIds |-> NoExc]
    /\ exitcode = [r \in RunIds |-> -1]
    /\ stdout = [r \in RunIds |-> <<>>]
    /\ ncalls = [r \in RunIds |-> 0]
    /\ produced = [r \in RunIds |-> NoPdf]
    /\ trace = [r \in RunIds |-> <<>>]
    /\ errlog = [r \in RunIds |-> <<>>]
    /\ invoked = [r \in RunIds |-> <<>>]
    /\ access = Used(0, {})

Init ==
    /\ \E file \in FileLists, output \in OutputOpts :
         \E missing \in SUBSET Range(file) :
            /\ argv = [r \in RunIds |->
                         IF r = 1 THEN [file |-> file, output |-> output] ELSE NoArgs]
            /\ fs = InitialFiles(missing)
    /\ InitRun({1})

(***************************************************************************)
(* main(), lines 48-59: reject an empty file list, otherwise compute the   *)
(* staged names and the document and capture the working directory.        *)
(***************************************************************************)
\* a start that lets an empty file list through
StartAcceptsEmpty(r) ==
    /\ pc[r] = "main"
    /\ LET a == parseargs(argv[r])
       IN  /\ args' = [args EXCEPT ![r] = a]
           /\ IF Len(a.file) < 0
              THEN /\ errlog' = [errlog EXCEPT ![r] = Append(@, LogError("stdin", <<>>, 0))]
                   /\ exitcode' = [exitcode EXCEPT ![r] = ExitStatus(SystemExit(1))]
                   /\ pc' = [pc EXCEPT ![r] = "done"]
                   /\ UNCHANGED <<files, latexcode, cwd>>
              ELSE /\ files' = [files EXCEPT ![r] = StagedNames(a.file)]
                   /\ latexcode' = [latexcode EXCEPT ![r] =
                                       buildlatex(latexoptions(a), StagedNames(a.file))]
                   /\ cwd' = [cwd EXCEPT ![r] = oscwd[r]]
                   /\ pc' = [pc EXCEPT ![r] = "tempdir"]
                   /\ UNCHANGED <<errlog, exitcode>>
    /\ access' = Used(r, {})
    /\ UNCHANGED <<fs, dirs, argv, oscwd, dirpath, prevdir, idx, exc, stdout,
                   ncalls, trace, produced, invoked>>

Start(r) ==
    /\ pc[r] = "main"
    /\ LET a == parseargs(argv[r])
       IN  /\ args' = [args EXCEPT ![r] = a]
           /\ IF Len(a.file) < 1
              THEN /\ errlog' = [errlog EXCEPT ![r] = Append(@, LogError("stdin", <<>>, 0))]
                   /\ exitcode' = [exitcode EXCEPT ![r] = ExitStatus(SystemExit(1))]
                   /\ pc' = [pc EXCEPT ![r] = "done"]
                   /\ UNCHANGED <<files, latexcode, cwd>>
              ELSE /\ files' = [files EXCEPT ![r] = StagedNames(a.file)]
                   /\ latexcode' = [latexcode EXCEPT ![r] =
                                       buildlatex(latexoptions(a), StagedNames(a.file))]
                   /\ cwd' = [cwd EXCEPT ![r] = oscwd[r]]
                   /\ pc' = [pc EXCEPT ![r] = "tempdir"]
                   /\ UNCHANGED <<errlog, exitcode>>
    /\ access' = Used(r, {})
    /\ UNCHANGED <<fs, dirs, argv, oscwd, dirpath, prevdir, idx, exc, stdout,
                   ncalls, trace, produced, invoked>>

(***************************************************************************)
(* Entering "with tempdir()": mkdtemp creates a directory that did not     *)
(* exist, cd() remembers the working directory and changes into it.        *)
(***************************************************************************)
\* a sandbox made under a name that may already be in use
EnterTempdirShared(r) ==
    /\ pc[r] = "tempdir"
    /\ \E d \in TmpDirs :
         /\ dirs' = dirs \cup {d}
         /\ dirpath' = [dirpath EXCEPT ![r] = d]
         /\ prevdir' = [prevdir EXCEPT ![r] = oscwd[r]]
         /\ oscwd' = [oscwd EXCEPT ![r] = d]
    /\ idx' = [idx EXCEPT ![r] = 0]
    /\ trace' = [trace EXCEPT ![r] = Append(@, Event("enter", 0))]
    /\ pc' = [pc EXCEPT ![r] = "stage"]
    /\ access' = Used(r, {})
    /\ UNCHANGED <<fs, argv, args, files, latexcode, cwd, exc, exitcode, stdout,
                   ncalls, errlog, produced, invoked>>

EnterTempdir(r) ==
    /\ pc[r] = "tempdir"
    /\ \E d \in TmpDirs \ dirs :
         /\ dirs' = dirs \cup {d}
         /\ dirpath' = [dirpath EXCEPT ![r] = d]
         /\ prevdir' = [prevdir EXCEPT ![r] = oscwd[r]]
         /\ oscwd' = [oscwd EXCEPT ![r] = d]
    /\ idx' = [idx EXCEPT ![r] = 0]
    /\ trace' = [trace EXCEPT ![r] = Append(@, Event("enter", 0))]
    /\ pc' = [pc EXCEPT ![r] = "stage"]
    /\ access' = Used(r, {})
    /\ UNCHANGED <<fs, argv, args, files, latexcode, cwd, exc, exitcode, stdout,
                   ncalls, errlog, produced, invoked>>

(***************************************************************************)
(* One iteration of the staging loop, lines 61-67.                         *)
(***************************************************************************)
\* a staging loop that logs a missing input and goes on to the next one
StageSkipsMissing(r) ==
    /\ pc[r] = "stage"
    /\ LET oldpath == join(cwd[r], args[r].file[idx[r] + 1])
           newpath == files[r][idx[r] + 1]
       IN  IF ~isfile(fs, oldpath)
           THEN /\ errlog' = [errlog EXCEPT ![r] = Append(@, LogError("read", oldpath, 0))]
                /\ idx' = [idx EXCEPT ![r] = @ + 1]
                /\ pc' = [pc EXCEPT ![r] =
                             IF idx[r] + 1 < Len(args[r].file) THEN "stage" ELSE "write"]
                /\ UNCHANGED <<fs, exc, trace>>
           ELSE /\ fs' = WriteFile(fs, Abs(oscwd[r], newpath), fs[oldpath])
                /\ trace' = [trace EXCEPT ![r] = Append(@, Event("copy", idx[r]))]
                /\ idx' = [idx EXCEPT ![r] = @ + 1]
                /\ pc' = [pc EXCEPT ![r] =
                             IF idx[r] + 1 < Len(args[r].file) THEN "stage" ELSE "write"]
                /\ UNCHANGED <<errlog, exc>>
    /\ access' = Used(r, {join(cwd[r], args[r].file[idx[r] + 1])}
                            \cup (IF isfile(fs, join(cwd[r], args[r].file[idx[r] + 1]))
                                  THEN {Abs(oscwd[r], files[r][idx[r] + 1])} ELSE {}))
    /\ UNCHANGED <<dirs, argv, args, oscwd, files, latexcode, cwd, dirpath, prevdir,
                   exitcode, stdout, ncalls, produced, invoked>>

\* a staging loop that is left after the first copy
StageWritesEarly(r) ==
    /\ pc[r] = "stage"
    /\ LET oldpath == join(cwd[r], args[r].file[idx[r] + 1])
           newpath == files[r][idx[r] + 1]
       IN  IF ~isfile(fs, oldpath)
           THEN /\ errlog' = [errlog EXCEPT ![r] = Append(@, LogError("read", oldpath, 0))]
                /\ exc' = [exc EXCEPT ![r] = SystemExit(1)]
                /\ pc' = [pc EXCEPT ![r] = "chdir"]
                /\ UNCHANGED <<fs, idx, trace>>
           ELSE /\ fs' = WriteFile(fs, Abs(oscwd[r], newpath), fs[oldpath])
                /\ trace' = [trace EXCEPT ![r] = Append(@, Event("copy", idx[r]))]
                /\ idx' = [idx EXCEPT ![r] = @ + 1]
                /\ pc' = [pc EXCEPT ![r] = "write"]
                /\ UNCHANGED <<errlog, exc>>
    /\ access' = Used(r, {join(cwd[r], args[r].file[idx[r] + 1])}
                            \cup (IF isfile(fs, join(cwd[r], args[r].file[idx[r] + 1]))
                                  THEN {Abs(oscwd[r], files[r][idx[r] + 1])} ELSE {}))
    /\ UNCHANGED <<dirs, argv, args, oscwd, files, latexcode, cwd, dirpath, prevdir,
                   exitcode, stdout, ncalls, produced, invoked>>

\* a staging loop whose error message names the staged file, not the input
StageLogsNewpath(r) ==
    /\ pc[r] = "stage"
    /\ LET oldpath == join(cwd[r], args[r].file[idx[r] + 1])
           newpath == files[r][idx[r] + 1]
       IN  IF ~isfile(fs, oldpath)
           THEN /\ errlog' = [errlog EXCEPT ![r] = Append(@, LogError("read", newpath, 0))]
                /\ exc' = [exc EXCEPT ![r] = SystemExit(1)]
                /\ pc' = [pc EXCEPT ![r] = "chdir"]
                /\ UNCHANGED <<fs, idx, trace>>
           ELSE /\ fs' = WriteFile(fs, Abs(oscwd[r], newpath), fs[oldpath])
                /\ trace' = [trace EXCEPT ![r] = Append(@, Event("copy", idx[r]))]
                /\ idx' = [idx EXCEPT ![r] = @ + 1]
                /\ pc' = [pc EXCEPT ![r] =
                             IF idx[r] + 1 < Len(args[r].file) THEN "stage" ELSE "write"]
                /\ UNCHANGED <<errlog, exc>>
    /\ access' = Used(r, {join(cwd[r], args[r].file[idx[r] + 1])}
                            \cup (IF isfile(fs, join(cwd[r], args[r].file[idx[r] + 1]))
                                  THEN {Abs(oscwd[r], files[r][idx[r] + 1])} ELSE {}))
    /\ UNCHANGED <<dirs, argv, args, oscwd, files, latexcode, cwd, dirpath, prevdir,
                   exitcode, stdout, ncalls, produced, invoked>>

Stage(r) ==
    /\ pc[r] = "stage"
    /\ LET oldpath == join(cwd[r], args[r].file[idx[r] + 1])
           newpath == files[r][idx[r] + 1]
       IN  IF ~isfile(fs, oldpath)
           THEN /\ errlog' = [errlog EXCEPT ![r] = Append(@, LogError("read", oldpath, 0))]
                /\ exc' = [exc EXCEPT ![r] = SystemExit(1)]
                /\ pc' = [pc EXCEPT ![r] = "chdir"]
                /\ UNCHANGED <<fs, idx, trace>>
           ELSE /\ fs' = WriteFile(fs, Abs(oscwd[r], newpath), fs[oldpath])
                /\ trace' = [trace EXCEPT ![r] = Append(@, Event("copy", idx[r]))]
                /\ idx' = [idx EXCEPT ![r] = @ + 1]
                /\ pc' = [pc EXCEPT ![r] =
                             IF idx[r] + 1 < Len(args[r].file) THEN "stage" ELSE "write"]
                /\ UNCHANGED <<errlog, exc>>
    /\ access' = Used(r, {join(cwd[r], args[r].file[idx[r] + 1])}
                            \cup (IF isfile(fs, join(cwd[r], args[r].file[idx[r] + 1]))
                                  THEN {Abs(oscwd[r], files[r][idx[r] + 1])} ELSE {}))
    /\ UNCHANGED <<dirs, argv, args, oscwd, files, latexcode, cwd, dirpath, prevdir,
                   exitcode, stdout, ncalls, produced, invoked>>

(***************************************************************************)
(* Lines 68-72: the assertion, then the document is written.               *)
(***************************************************************************)
WriteDocument(r) ==
    /\ pc[r] = "write"
    /\ IF texfile \in Range(files[r])
       THEN /\ exc' = [exc EXCEPT ![r] = Error]
            /\ pc' = [pc EXCEPT ![r] = "chdir"]
            /\ UNCHANGED <<fs, trace>>
       ELSE /\ fs' = WriteFile(fs, Abs(oscwd[r], texfile), latexcode[r])
            /\ trace' = [trace EXCEPT ![r] = Append(@, Event("write", 0))]
            /\ pc' = [pc EXCEPT ![r] = "compile"]
            /\ UNCHANGED exc
    /\ idx' = [idx EXCEPT ![r] = 0]
    /\ access' = Used(r, IF texfile \in Range(files[r]) THEN {} ELSE {Abs(oscwd[r], texfile)})
    /\ UNCHANGED <<dirs, argv, args, oscwd, files, latexcode, cwd, dirpath, prevdir,
                   exitcode, stdout, ncalls, errlog, produced, invoked>>

(***************************************************************************)
(* One iteration of the compile loop, lines 73-77.  subprocess.call starts *)
(* the compiler and blocks until it has ended; the compiler reads the      *)
(* document, may leave a PDF in the working directory, and returns a       *)
(* status.  A compiler that never ends leaves the run waiting.             *)
(***************************************************************************)
CallCompiler(r) ==
    /\ pc[r] = "compile"
    /\ invoked' = [invoked EXCEPT ![r] = Append(@, commandline)]
    /\ ncalls' = [ncalls EXCEPT ![r] = @ + 1]
    /\ trace' = [trace EXCEPT ![r] = Append(@, Event("invoke", idx[r]))]
    /\ pc' = [pc EXCEPT ![r] = "waiting"]
    /\ access' = Used(r, {})
    /\ UNCHANGED <<fs, dirs, argv, args, oscwd, files, latexcode, cwd, dirpath, prevdir,
                   idx, exc, exitcode, stdout, produced, errlog>>

\* a compile loop that runs a failed pass again instead of exiting
CompilerReturnsRetries(r) ==
    /\ pc[r] = "waiting"
    /\ \E o \in CompilerOutcomes :
         /\ fs' = IF o.pdf # NoPdf
                  THEN WriteFile(fs, Abs(oscwd[r], pdffile), o.pdf)
                  ELSE fs
         /\ IF o.status # 0
            THEN /\ errlog' = [errlog EXCEPT ![r] = Append(@, LogError("xelatex", <<>>, o.status))]
                 /\ pc' = [pc EXCEPT ![r] = "compile"]
                 /\ UNCHANGED <<idx, exc>>
            ELSE /\ idx' = [idx EXCEPT ![r] = @ + 1]
                 /\ pc' = [pc EXCEPT ![r] =
                              IF idx[r] + 1 < Passes THEN "compile" ELSE "artifact"]
                 /\ UNCHANGED <<errlog, exc>>
         /\ produced' = [produced EXCEPT ![r] = IF o.pdf # NoPdf THEN o.pdf ELSE @]
         /\ trace' = [trace EXCEPT ![r] = Append(@, Event("call", o.status))]
    /\ access' = Used(r, {Abs(oscwd[r], texfile), Abs(oscwd[r], pdffile)})
    /\ UNCHANGED <<dirs, argv, args, oscwd, files, latexcode, cwd, dirpath, prevdir,
                   exitcode, stdout, ncalls, invoked>>

CompilerReturns(r) ==
    /\ pc[r] = "waiting"
    /\ \E o \in CompilerOutcomes :
         /\ fs' = IF o.pdf # NoPdf
                  THEN WriteFile(fs, Abs(oscwd[r], pdffile), o.pdf)
                  ELSE fs
         /\ IF o.status # 0
            THEN /\ errlog' = [errlog EXCEPT ![r] = Append(@, LogError("xelatex", <<>>, o.status))]
                 /\ exc' = [exc EXCEPT ![r] = SystemExit(o.status)]
                 /\ pc' = [pc EXCEPT ![r] = "chdir"]
                 /\ UNCHANGED idx
            ELSE /\ idx' = [idx EXCEPT ![r] = @ + 1]
                 /\ pc' = [pc EXCEPT ![r] =
                              IF idx[r] + 1 < Passes THEN "compile" ELSE "artifact"]
                 /\ UNCHANGED <<errlog, exc>>
         /\ produced' = [produced EXCEPT ![r] = IF o.pdf # NoPdf THEN o.pdf ELSE @]
         /\ trace' = [trace EXCEPT ![r] = Append(@, Event("call", o.status))]
    /\ access' = Used(r, {Abs(oscwd[r], texfile), Abs(oscwd[r], pdffile)})
    /\ UNCHANGED <<dirs, argv, args, oscwd, files, latexcode, cwd, dirpath, prevdir,
                   exitcode, stdout, ncalls, invoked>>

(***************************************************************************)
(* Lines 78-80: the expected PDF must be there.                            *)
(***************************************************************************)
\* a check that logs the missing PDF and returns from main() without sys.exit
CheckArtifactWarnsOnly(r) ==
    /\ pc[r] = "artifact"
    /\ IF ~isfile(fs, Abs(oscwd[r], pdffile))
       THEN /\ errlog' = [errlog EXCEPT ![r] = Append(@, LogError("nopdf", pdffile, 0))]
            /\ UNCHANGED exc
            /\ pc' = [pc EXCEPT ![r] = "chdir"]
       ELSE /\ pc' = [pc EXCEPT ![r] = "deliver"]
            /\ UNCHANGED <<errlog, exc>>
    /\ access' = Used(r, {Abs(oscwd[r], pdffile)})
    /\ UNCHANGED <<fs, dirs, argv, args, oscwd, files, latexcode, cwd, dirpath,
                   prevdir, idx, exitcode, stdout, ncalls, trace, produced, invoked>>

CheckArtifact(r) ==
    /\ pc[r] = "artifact"
    /\ IF ~isfile(fs, Abs(oscwd[r], pdffile))
       THEN /\ errlog' = [errlog EXCEPT ![r] = Append(@, LogError("nopdf", pdffile, 0))]
            /\ exc' = [exc EXCEPT ![r] = SystemExit(1)]
            /\ pc' = [pc EXCEPT ![r] = "chdir"]
       ELSE /\ pc' = [pc EXCEPT ![r] = "deliver"]
            /\ UNCHANGED <<errlog, exc>>
    /\ access' = Used(r, {Abs(oscwd[r], pdffile)})
    /\ UNCHANGED <<fs, dirs, argv, args, oscwd, files, latexcode, cwd, dirpath,
                   prevdir, idx, exitcode, stdout, ncalls, trace, produced, invoked>>

(***************************************************************************)
(* Lines 81-87: resolve the destination and deliver the PDF.               *)
(***************************************************************************)
\* a default destination that keeps the extension of the first input
DefaultOutputKeepsExt(file) == file[1] \o <<".","p","d","f">>

\* os.path.splitext(args.file[0])[0] + '.pdf'
DefaultOutput(file) == splitext(file[1])[1] \o <<".","p","d","f">>

\* the destination of shutil.copyfile at line 87
Destination(dir, output) == join(dir, output)

Deliver(r) ==
    /\ pc[r] = "deliver"
    /\ LET output == IF args[r].output = <<>>
                     THEN DefaultOutput(args[r].file)
                     ELSE args[r].output
           pdf == fs[Abs(oscwd[r], pdffile)]
           written == BufferWrite(stdout[r], ReadText(pdf))
       IN  /\ args' = [args EXCEPT ![r].output = output]
           /\ IF output = Dash
              THEN /\ stdout' = [stdout EXCEPT ![r] =
                                    IF ReadText(pdf).ok THEN written.out ELSE @]
                   /\ exc' = [exc EXCEPT ![r] =
                                 IF ReadText(pdf).ok /\ written.ok THEN @ ELSE Error]
                   /\ access' = Used(r, {Abs(oscwd[r], pdffile)})
                   /\ UNCHANGED fs
              ELSE /\ fs' = WriteFile(fs, Destination(cwd[r], output), pdf)
                   /\ access' = Used(r, {Abs(oscwd[r], pdffile), Destination(cwd[r], output)})
                   /\ UNCHANGED <<stdout, exc>>
    /\ trace' = [trace EXCEPT ![r] = Append(@, Event("deliver", 0))]
    /\ pc' = [pc EXCEPT ![r] = "chdir"]
    /\ UNCHANGED <<dirs, argv, oscwd, files, latexcode, cwd, dirpath, prevdir,
                   idx, exitcode, ncalls, errlog, produced, invoked>>

(***************************************************************************)
(* Leaving the with block, cd() lines 31-33: first os.chdir(prevdir), then *)
(* cleanup(), which is shutil.rmtree(dirpath).  rmtree either removes the  *)
(* tree or raises and leaves the directory (kept here with all its files); *)
(* an exception raised here replaces the one that was travelling.  What    *)
(* leaves main() decides the exit status.                                  *)
(***************************************************************************)
\* an exit from cd() that removes the tree while still inside it
ChdirBackRemovesFirst(r) ==
    /\ pc[r] = "chdir"
    /\ fs' = RemoveTree(fs, dirpath[r])
    /\ dirs' = dirs \ {dirpath[r]}
    /\ trace' = [trace EXCEPT ![r] = Append(@, Event("rmtree", 0))]
    /\ pc' = [pc EXCEPT ![r] = "cleanup"]
    /\ access' = Used(r, Inside(fs, dirpath[r]))
    /\ UNCHANGED <<argv, args, oscwd, files, latexcode, cwd, dirpath, prevdir,
                   idx, exc, exitcode, stdout, ncalls, errlog, produced, invoked>>

\* an exit from cd() that does not change back to prevdir
ChdirBackStays(r) ==
    /\ pc[r] = "chdir"
    /\ oscwd' = oscwd
    /\ trace' = [trace EXCEPT ![r] = Append(@, Event("chdir", 0))]
    /\ pc' = [pc EXCEPT ![r] = "cleanup"]
    /\ access' = Used(r, {})
    /\ UNCHANGED <<fs, dirs, argv, args, files, latexcode, cwd, dirpath, prevdir,
                   idx, exc, exitcode, stdout, ncalls, errlog, produced, invoked>>

ChdirBack(r) ==
    /\ pc[r] = "chdir"
    /\ oscwd' = [oscwd EXCEPT ![r] = prevdir[r]]
    /\ trace' = [trace EXCEPT ![r] = Append(@, Event("chdir", 0))]
    /\ pc' = [pc EXCEPT ![r] = "cleanup"]
    /\ access' = Used(r, {})
    /\ UNCHANGED <<fs, dirs, argv, args, files, latexcode, cwd, dirpath, prevdir,
                   idx, exc, exitcode, stdout, ncalls, errlog, produced, invoked>>

Cleanup(r) ==
    /\ pc[r] = "cleanup"
    /\ \E removed \in BOOLEAN :
         IF removed
         THEN /\ fs' = RemoveTree(fs, dirpath[r])
              /\ dirs' = dirs \ {dirpath[r]}
              /\ exitcode' = [exitcode EXCEPT ![r] = ExitStatus(exc[r])]
              /\ trace' = [trace EXCEPT ![r] = Append(@, Event("rmtree", 0))]
              /\ UNCHANGED exc
         ELSE /\ exc' = [exc EXCEPT ![r] = Error]
              /\ exitcode' = [exitcode EXCEPT ![r] = ExitStatus(Error)]
              /\ trace' = [trace EXCEPT ![r] = Append(@, Event("rmtree", 1))]
              /\ UNCHANGED <<fs, dirs>>
    /\ pc' = [pc EXCEPT ![r] = "done"]
    /\ access' = Used(r, Inside(fs, dirpath[r]))
    /\ UNCHANGED <<argv, args, oscwd, files, latexcode, cwd, dirpath, prevdir,
                   idx, stdout, ncalls, errlog, produced, invoked>>

Next ==
    \E r \in RunIds :
        \/ Start(r)
        \/ EnterTempdir(r)
        \/ Stage(r)
        \/ WriteDocument(r)
        \/ CallCompiler(r)
        \/ CompilerReturns(r)
        \/ CheckArtifact(r)
        \/ Deliver(r)
        \/ ChdirBack(r)
        \/ Cleanup(r)

Spec == Init /\ [][Next]_vars

(***************************************************************************)
(* Progress.  The process is always scheduled, so a step of the program    *)
(* that can be taken is eventually taken.  Nothing makes the compiler end: *)
(* subprocess.call is given no timeout, so the step that ends the wait has *)
(* no fairness.                                                            *)
(***************************************************************************)
ProgramStep ==
    \E r \in RunIds :
        \/ Start(r)
        \/ EnterTempdir(r)
        \/ Stage(r)
        \/ WriteDocument(r)
        \/ CallCompiler(r)
        \/ CheckArtifact(r)
        \/ Deliver(r)
        \/ ChdirBack(r)
        \/ Cleanup(r)

LiveSpec == Init /\ [][Next]_vars /\ WF_vars(ProgramStep)

(***************************************************************************)
(* Two runs of the tool, each in its own process, started in the same      *)
(* directory and interleaved in any way.                                   *)
(***************************************************************************)
TwoRunLists == {<<PathAC>>, <<PathDBPY, PathN>>}

TwoRunOutputs == {<<>>, PathXPDF}

InitTwo ==
    /\ \E f1, f2 \in TwoRunLists, o1, o2 \in TwoRunOutputs :
         argv = [r \in RunIds |->
                    IF r = 1 THEN [file |-> f1, output |-> o1]
                    ELSE [file |-> f2, output |-> o2]]
    /\ fs = InitialFiles({})
    /\ InitRun({1, 2})

SpecTwo == InitTwo /\ [][Next]_vars

(***************************************************************************)
(* Observations used by the properties.                                    *)
(***************************************************************************)
Done(r) == pc[r] = "done"

Entered(r) == dirpath[r] # <<>>

IsCall(e) == e.op = "call"

IsCopy(e) == e.op = "copy"

\* the statuses returned by the compiler invocations of run r, in order
CallStatuses(r) ==
    LET calls == SelectSeq(trace[r], IsCall)
    IN  [i \in 1..Len(calls) |-> calls[i].n]

Happened(r, op) == \E i \in 1..Len(trace[r]) : trace[r][i].op = op

RmtreeRaised(r) == \E i \in 1..Len(trace[r]) : trace[r][i].op = "rmtree" /\ trace[r][i].n = 1

\* the files that are not inside a temporary directory
Outside(f) == [q \in {p \in DOMAIN f : \A d \in TmpDirs : ~IsUnder(p, d)} |-> f[q]]

\* some input of run r is not a regular file (inputs are only ever read, and
\* the caller's directory is written only when delivering, after staging)
SomeInputMissing(r) ==
    \E i \in 1..Len(argv[r].file) : join(HomeDir, argv[r].file[i]) \notin DOMAIN fs

(***************************************************************************)
(* C1                                                                      *)
(***************************************************************************)
\* C1 as stated: after any run of main() that entered the sandbox, whatever
\* the outcome, the sandbox directory no longer exists and the working
\* directory is the one that was current before the sandbox was entered.
C1_AsStated ==
    \A r \in RunIds :
        (Done(r) /\ Entered(r)) => (dirpath[r] \notin dirs /\ oscwd[r] = HomeDir)

\* C1 amended: after any run of main() that entered the sandbox, whatever the
\* outcome, the working directory is the one that was current before the
\* sandbox was entered, and the sandbox directory and everything in it no
\* longer exist unless shutil.rmtree itself raised.
C1_CwdRestoredSandboxRemoved ==
    \A r \in RunIds :
        (Done(r) /\ Entered(r)) =>
            /\ oscwd[r] = HomeDir
            /\ Happened(r, "rmtree")
            /\ RmtreeRaised(r) \/ (dirpath[r] \notin dirs /\ Inside(fs, dirpath[r]) = {})

\* a run ended by a failing compiler pass, torn down
C1_Witness ==
    \E r \in RunIds :
        /\ Done(r) /\ Entered(r) /\ ~RmtreeRaised(r)
        /\ Len(CallStatuses(r)) = 2 /\ CallStatuses(r)[2] # 0
        /\ dirpath[r] \notin dirs /\ oscwd[r] = HomeDir

(***************************************************************************)
(* C2                                                                      *)
(***************************************************************************)
\* C2: when at least one path of the input list is not an existing regular
\* file, the run makes no compiler invocation and ends with exit code 1.
C2_MissingInputNoCompile ==
    \A r \in RunIds :
        (pc[r] # "idle" /\ SomeInputMissing(r)) =>
            /\ ncalls[r] = 0
            /\ CallStatuses(r) = <<>>
            /\ Done(r) => exitcode[r] = 1

\* the second of two inputs is missing, the first one was copied, the run ended
C2_Witness ==
    \E r \in RunIds :
        /\ Done(r) /\ SomeInputMissing(r)
        /\ Len(argv[r].file) = 2
        /\ SelectSeq(trace[r], IsCopy) # <<>>
        /\ exitcode[r] = 1

(***************************************************************************)
(* C3                                                                      *)
(***************************************************************************)
\* C3: the compiler is invoked exactly twice, one after the other, on a
\* successful run; after a pass that returned a non-zero status there is no
\* further invocation (one invocation when the first pass fails, two when the
\* second fails); no run invokes the compiler more than twice.
C3_TwoPasses ==
    \A r \in RunIds :
        LET st == CallStatuses(r)
        IN  /\ Len(st) <= 2
            /\ ncalls[r] <= 2
            /\ ncalls[r] = Len(st) + (IF pc[r] = "waiting" THEN 1 ELSE 0)
            /\ \A i \in 1..(Len(st) - 1) : st[i] = 0
            /\ (Done(r) /\ exitcode[r] = 0) => st = <<0, 0>>
            /\ (Done(r) /\ Len(st) >= 1 /\ st[1] # 0) => Len(st) = 1
            /\ (Done(r) /\ Len(st) >= 1 /\ st[1] = 0) => Len(st) = 2
            /\ (Happened(r, "deliver") \/ pc[r] \in {"artifact", "deliver"}) => st = <<0, 0>>

\* a run whose first pass returned 0 and whose second pass failed
C3_Witness ==
    \E r \in RunIds :
        /\ Done(r)
        /\ Len(CallStatuses(r)) = 2
        /\ CallStatuses(r)[1] = 0 /\ CallStatuses(r)[2] # 0

(***************************************************************************)
(* Expected names, written out by hand for the inputs of the model.        *)
(***************************************************************************)
\* the bytes of every path outside the sandbox before the run, all inputs present
Untouched == InitialFiles({})

\* nothing reached the output destination: standard output is empty and no
\* file outside the sandbox was created or changed
NothingDelivered(r) == stdout[r] = <<>> /\ Outside(fs) = Untouched

\* all files outside the sandbox other than dest are as before the run
OnlyWritten(dest) ==
    /\ DOMAIN Outside(fs) \ {dest} = DOMAIN Untouched \ {dest}
    /\ \A p \in DOMAIN Untouched \ {dest} : fs[p] = Untouched[p]

\* input path -> the default destination, as an absolute path
ExpectedDefault(p) ==
    CASE p = PathAC -> <<"/","w","/","a",".","p","d","f">>
      [] p = PathDBPY -> <<"/","w","/","d","/","b",".","p","d","f">>
      [] p = PathN -> <<"/","w","/","n",".","p","d","f">>
      [] p = PathDotH -> <<"/","w","/",".","h",".","p","d","f">>
      [] p = PathOPDF -> <<"/","w","/","o",".","p","d","f">>
      [] p = PathRootRC -> <<"/","r",".","p","d","f">>

\* explicit output path -> the file it names for the caller
ExpectedExplicit(p) ==
    CASE p = PathXPDF -> <<"/","w","/","x",".","p","d","f">>
      [] p = PathAC -> <<"/","w","/","a",".","c">>

\* input path -> its extension
ExpectedExt(p) ==
    CASE p = PathAC -> <<".","c">>
      [] p = PathDBPY -> <<".","p","y">>
      [] p = PathN -> <<>>
      [] p = PathDotH -> <<>>
      [] p = PathOPDF -> <<".","p","d","f">>
      [] p = PathRootRC -> <<".","c">>

\* the file that input p, at zero-based position i, is staged as in sandbox d
ExpectedStaged(d, i, p) ==
    d \o <<"/","s","o","u","r","c","e">> \o <<(<<"0","1","2","3","4">>)[i + 1]>> \o ExpectedExt(p)

(***************************************************************************)
(* C4                                                                      *)
(***************************************************************************)
\* C4 as stated: when a compiler pass returns a non-zero status s (any value
\* the invocation can report, on either pass), the run aborts at once, the
\* exit code of the process equals s, and nothing is delivered.
C4_AsStated ==
    \A r \in RunIds :
        LET st == CallStatuses(r)
        IN  (Done(r) /\ st # <<>> /\ st[Len(st)] # 0) =>
                /\ exitcode[r] = st[Len(st)]
                /\ ~Happened(r, "deliver")
                /\ NothingDelivered(r)

(***************************************************************************)
(* C5                                                                      *)
(***************************************************************************)
\* C5: if both compiler passes return 0 but mintscript.pdf does not exist in
\* the sandbox, the run fails with exit code 1 and nothing is written to the
\* output destination, neither a file nor standard output.
C5_MissingArtifactFails ==
    \A r \in RunIds :
        (CallStatuses(r) = <<0, 0>> /\ produced[r] = NoPdf) =>
            /\ ~Happened(r, "deliver")
            /\ NothingDelivered(r)
            /\ pc[r] \notin {"compile", "deliver"}
            /\ Done(r) => exitcode[r] = 1

\* both passes returned 0, no PDF was left, the run ended and was torn down
C5_Witness ==
    \E r \in RunIds :
        /\ Done(r) /\ CallStatuses(r) = <<0, 0>> /\ produced[r] = NoPdf
        /\ ~RmtreeRaised(r)
        /\ exitcode[r] = 1

(***************************************************************************)
(* C6                                                                      *)
(***************************************************************************)
\* C6 as stated: with output destination "-" and two successful passes that
\* produce the artifact, the bytes on standard output are exactly the bytes
\* of the artifact, no file is written at any destination path, and the run
\* ends successfully.
C6_AsStated ==
    \A r \in RunIds :
        (Done(r) /\ argv[r].output = Dash
            /\ CallStatuses(r) = <<0, 0>> /\ produced[r] # NoPdf) =>
                /\ stdout[r] = produced[r]
                /\ Outside(fs) = Untouched
                /\ exitcode[r] = 0

(***************************************************************************)
(* C7                                                                      *)
(***************************************************************************)
\* C7: with no explicit output destination the artifact is copied to the
\* first input's path with its extension replaced by .pdf (d/b.py gives
\* d/b.pdf), taken relative to the caller's original working directory and
\* never to the sandbox.
C7_DefaultDestination ==
    \A r \in RunIds :
        (argv[r].output = <<>> /\ Happened(r, "deliver")) =>
            LET dest == ExpectedDefault(argv[r].file[1])
            IN  /\ dest \in DOMAIN fs
                /\ fs[dest] = produced[r]
                /\ produced[r] # NoPdf
                /\ ~IsUnder(dest, dirpath[r])
                /\ OnlyWritten(dest)
                /\ \A p \in Inside(fs, dirpath[r]) :
                       \/ p = join(dirpath[r], texfile)
                       \/ p = join(dirpath[r], pdffile)
                       \/ \E i \in 1..Len(argv[r].file) :
                              p = ExpectedStaged(dirpath[r], i - 1, argv[r].file[i])

\* d/b.py was the first input and the run delivered /w/d/b.pdf
C7_Witness ==
    \E r \in RunIds :
        /\ Done(r) /\ argv[r].output = <<>>
        /\ argv[r].file # <<>> /\ argv[r].file[1] = PathDBPY
        /\ Happened(r, "deliver")
        /\ <<"/","w","/","d","/","b",".","p","d","f">> \in DOMAIN fs
        /\ exitcode[r] = 0

(***************************************************************************)
(* C8                                                                      *)
(***************************************************************************)
\* C8 as stated: with an explicit output destination P other than "-", when
\* all inputs exist, both passes return 0 and the artifact exists, the
\* artifact's bytes are copied to exactly P in the caller's original working
\* directory, nothing is written to standard output, the default derived
\* path is not written, and the process ends with exit code 0.
C8_AsStated ==
    \A r \in RunIds :
        (Done(r) /\ argv[r].output \notin {<<>>, Dash}
            /\ CallStatuses(r) = <<0, 0>> /\ produced[r] # NoPdf) =>
                LET dest == ExpectedExplicit(argv[r].output)
                IN  /\ dest \in DOMAIN fs
                    /\ fs[dest] = produced[r]
                    /\ stdout[r] = <<>>
                    /\ OnlyWritten(dest)
                    /\ exitcode[r] = 0

(***************************************************************************)
(* C9                                                                      *)
(***************************************************************************)
\* C9: for N existing input files, staging creates exactly N files in the
\* sandbox, the i-th (from zero) named source<i><extension of input i> and
\* byte-identical to input i, copied in input order.
C9_Staging ==
    \A r \in RunIds :
        LET file == argv[r].file
            copies == SelectSeq(trace[r], IsCopy)
        IN  /\ \A k \in 1..Len(copies) : copies[k].n = k - 1
            /\ Len(copies) <= Len(file)
            /\ pc[r] = "write" =>
                 /\ Len(copies) = Len(file)
                 /\ Inside(fs, dirpath[r]) =
                        {ExpectedStaged(dirpath[r], i - 1, file[i]) : i \in 1..Len(file)}
                 /\ Cardinality(Inside(fs, dirpath[r])) = Len(file)
                 /\ \A i \in 1..Len(file) :
                        /\ fs[ExpectedStaged(dirpath[r], i - 1, file[i])] = InputBytes(file[i])
                        /\ fs[ExpectedStaged(dirpath[r], i - 1, file[i])]
                              = fs[join(HomeDir, file[i])]

\* two different inputs have been staged and the document is not yet written
C9_Witness ==
    \E r \in RunIds :
        /\ pc[r] = "write"
        /\ Len(argv[r].file) = 2
        /\ argv[r].file = <<PathDBPY, PathN>>
        /\ Cardinality(Inside(fs, dirpath[r])) = 2

(***************************************************************************)
(* C10                                                                     *)
(***************************************************************************)
\* C10: with an empty input file list the run is rejected before the
\* pipeline starts: no sandbox directory is created, no file is staged or
\* written, the compiler is never invoked, and the process exits with code 1.
C10_EmptyListRejected ==
    \A r \in RunIds :
        (pc[r] # "idle" /\ argv[r].file = <<>>) =>
            /\ pc[r] \in {"main", "done"}
            /\ dirpath[r] = <<>> /\ dirs = {}
            /\ fs = Untouched
            /\ ncalls[r] = 0 /\ trace[r] = <<>> /\ stdout[r] = <<>>
            /\ Done(r) => exitcode[r] = 1

\* a run started with no input file has ended
C10_Witness ==
    \E r \in RunIds :
        Done(r) /\ argv[r].file = <<>> /\ exitcode[r] = 1 /\ errlog[r] # <<>>

(***************************************************************************)
(* C11                                                                     *)
(***************************************************************************)
\* C11 as stated: a failure to delete the sandbox during teardown never
\* changes the outcome of the run: a run that delivered its output still ends
\* as a success, and a run ended by a failing compiler pass still exits with
\* the status that sys.exit was given.
C11_AsStated ==
    \A r \in RunIds :
        LET st == CallStatuses(r)
        IN  (Done(r) /\ RmtreeRaised(r)) =>
                /\ (Happened(r, "deliver") /\ argv[r].output # Dash) => exitcode[r] = 0
                /\ (st # <<>> /\ st[Len(st)] # 0) => exitcode[r] = st[Len(st)] % 256

(***************************************************************************)
(* C12                                                                     *)
(***************************************************************************)
\* C12 as stated: no run modifies a caller-supplied input file, whatever the
\* input list and the output configuration: every input that is a regular
\* file holds the bytes it held before the run.
C12_AsStated ==
    \A r \in RunIds :
        \A i \in 1..Len(argv[r].file) :
            LET p == join(HomeDir, argv[r].file[i])
            IN  p \in DOMAIN fs => fs[p] = InputBytes(argv[r].file[i])

(***************************************************************************)
(* C13                                                                     *)
(***************************************************************************)
\* position of a step in the pipeline
Rank(op) ==
    CASE op = "enter" -> 0
      [] op = "copy" -> 1
      [] op = "write" -> 2
      [] op \in {"invoke", "call"} -> 3
      [] op = "deliver" -> 4
      [] op = "chdir" -> 5
      [] op = "rmtree" -> 6

\* the steps of run r before position k that are op
Before(r, k, op) == {i \in 1..(k - 1) : trace[r][i].op = op}

\* C13: the steps of a run occur in the order stage all inputs, write the
\* document, compile (pass 1, then pass 2), deliver, tear down: the document
\* is written only after every input was staged, the compiler is first
\* invoked only after the document was written, the output is delivered only
\* after both passes returned 0 and the artifact was found, and teardown
\* comes after all of them.
C13_FixedOrder ==
    \A r \in RunIds :
        LET t == trace[r]
        IN  /\ \A i, j \in 1..Len(t) : i < j => Rank(t[i].op) <= Rank(t[j].op)
            /\ \A k \in 1..Len(t) :
                 /\ t[k].op = "write" =>
                        /\ Cardinality(Before(r, k, "copy")) = Len(argv[r].file)
                        /\ Before(r, k, "write") = {}
                 /\ t[k].op = "invoke" => Before(r, k, "write") # {}
                 /\ t[k].op = "call" => k > 1 /\ t[k - 1].op = "invoke"
                 /\ t[k].op = "deliver" =>
                        /\ Cardinality(Before(r, k, "call")) = 2
                        /\ \A i \in Before(r, k, "call") : t[i].n = 0
                        /\ produced[r] # NoPdf
                        /\ Before(r, k, "deliver") = {}
                 /\ t[k].op = "chdir" => Before(r, k, "chdir") = {}
                 /\ t[k].op = "rmtree" => k = Len(t) /\ t[k - 1].op = "chdir"

\* a run on two inputs went through every step
C13_Witness ==
    \E r \in RunIds :
        /\ Done(r)
        /\ [i \in 1..Len(trace[r]) |-> trace[r][i].op] =
              <<"enter", "copy", "copy", "write", "invoke", "call", "invoke", "call",
                "deliver", "chdir", "rmtree">>

(***************************************************************************)
(* C14                                                                     *)
(***************************************************************************)
\* run q has a sandbox of its own: it entered one and has not removed it
Owns(q) == Entered(q) /\ dirpath[q] \in dirs /\ (~Done(q) \/ RmtreeRaised(q))

DistinctSandboxes ==
    \A r, q \in RunIds : (r # q /\ Owns(r) /\ Owns(q)) => dirpath[r] # dirpath[q]

\* a step of another run leaves the sandbox of q alone: it uses no path in
\* it, and the directory and its files are afterwards as they were
LeavesAlone(q) ==
    (Owns(q) /\ access'.run # q) =>
        /\ \A p \in access'.paths : ~IsUnder(p, dirpath[q])
        /\ dirpath[q] \in dirs'
        /\ Inside(fs', dirpath[q]) = Inside(fs, dirpath[q])
        /\ \A p \in Inside(fs, dirpath[q]) : fs'[p] = fs[p]

\* C14: in any interleaving of two concurrent runs, the runs never use the
\* same sandbox directory, no step of one run reads, overwrites or deletes a
\* file in the other run's sandbox, and each run removes only its own sandbox.
C14_Isolation ==
    [][/\ DistinctSandboxes'
       /\ \A q \in RunIds : LeavesAlone(q)
       /\ \A d \in dirs \ dirs' : d = dirpath[access'.run]]_vars

\* both runs are waiting for their compiler, each with files in its sandbox
C14_Witness ==
    /\ pc[1] = "waiting" /\ pc[2] = "waiting"
    /\ Owns(1) /\ Owns(2)
    /\ Inside(fs, dirpath[1]) # {} /\ Inside(fs, dirpath[2]) # {}

(***************************************************************************)
(* C15                                                                     *)
(***************************************************************************)
\* staging of run r is over and some input was not a regular file
StagingFailed(r) == SomeInputMissing(r) /\ pc[r] \in {"chdir", "cleanup", "done"}

\* the position of the first input of run r that is not a regular file
FirstMissing(r) ==
    CHOOSE k \in 1..Len(argv[r].file) :
        /\ join(HomeDir, argv[r].file[k]) \notin DOMAIN fs
        /\ \A i \in 1..(k - 1) : join(HomeDir, argv[r].file[i]) \in DOMAIN fs

\* staging stopped at the first missing input: one error, naming that input,
\* the inputs before it copied and none after it, no document written
StoppedAtFirstMissing(r) ==
    LET k == FirstMissing(r)
    IN  /\ errlog[r] = <<LogError("read", join(HomeDir, argv[r].file[k]), 0)>>
        /\ SelectSeq(trace[r], IsCopy) = [i \in 1..(k - 1) |-> Event("copy", i - 1)]
        /\ ~Happened(r, "write")
        /\ \A d \in TmpDirs : join(d, texfile) \notin DOMAIN fs
        /\ ncalls[r] = 0

\* C15 as stated: staging takes the inputs in list order and is all-or-
\* nothing: at the first input that is not a regular file the run aborts with
\* an error naming that input, no later input is copied, and no document is
\* generated or written for the run.
C15_AsStated ==
    \A r \in RunIds :
        StagingFailed(r) => (StoppedAtFirstMissing(r) /\ latexcode[r] = <<>>)

\* C15 amended: staging takes the inputs in list order and is all-or-nothing:
\* at the first input that is not a regular file the run aborts with an error
\* naming that input, no later input is copied, and no document is written
\* for the run (its text was already built before staging began).
C15_StagingAborts ==
    \A r \in RunIds :
        StagingFailed(r) => (StoppedAtFirstMissing(r) /\ latexcode[r] # <<>>)

\* the first of two inputs is missing, the second is a file and was not copied
C15_Witness ==
    \E r \in RunIds :
        /\ Done(r) /\ Len(argv[r].file) = 2
        /\ join(HomeDir, argv[r].file[1]) \notin DOMAIN fs
        /\ join(HomeDir, argv[r].file[2]) \in DOMAIN fs
        /\ SelectSeq(trace[r], IsCopy) = <<>>
        /\ exitcode[r] = 1

(***************************************************************************)
(* C16                                                                     *)
(***************************************************************************)
\* C16: no two files the orchestrator writes into the sandbox share a name:
\* the staged names are pairwise distinct and none is mintscript.tex, so the
\* assertion before the document is written never fails.
C16_NoNameCollision ==
    \A r \in RunIds :
        LET n == Len(argv[r].file)
        IN  pc[r] \notin {"idle", "main"} =>
                /\ Len(files[r]) = n
                /\ \A i, j \in 1..n : i # j => files[r][i] # files[r][j]
                /\ \A i \in 1..n :
                       files[r][i] # <<"m","i","n","t","s","c","r","i","p","t",".","t","e","x">>
                /\ (n > 0 /\ Len(SelectSeq(trace[r], IsCopy)) = n
                        /\ pc[r] \notin {"stage", "write"}) => Happened(r, "write")

\* the same input was given twice, staged under two names, and the document written
C16_Witness ==
    \E r \in RunIds :
        /\ argv[r].file = <<PathAC, PathAC>>
        /\ pc[r] = "compile"
        /\ Happened(r, "write")
        /\ Cardinality(Inside(fs, dirpath[r])) = 3

(***************************************************************************)
(* C17                                                                     *)
(***************************************************************************)
TexName == <<"m","i","n","t","s","c","r","i","p","t",".","t","e","x">>

\* C17 as stated: every compiler invocation of a run uses the same command
\* line: the compiler, then a flag enabling embedded shell commands, a flag
\* suppressing interactive stops on error, a batch flag, and the document
\* source filename.
C17_AsStated ==
    \A r \in RunIds :
        \A i \in 1..Len(invoked[r]) :
            LET c == invoked[r][i]
            IN  /\ c = invoked[r][1]
                /\ Len(c) = 5
                /\ c[1] = "xelatex"
                /\ c[2] = "-shell-escape"
                /\ c[4] = "-batch"
                /\ c[5] = TexName

\* C17 amended: every compiler invocation of a run uses the same command
\* line: the compiler, then the flag enabling embedded shell commands, the
\* batch flag, and the document source filename, and nothing else.
C17_CommandLine ==
    \A r \in RunIds :
        \A i \in 1..Len(invoked[r]) :
            LET c == invoked[r][i]
            IN  /\ c = invoked[r][1]
                /\ Len(c) = 4
                /\ c[1] = "xelatex"
                /\ c[2] = "-shell-escape"
                /\ c[3] = "-batch"
                /\ c[4] = TexName

\* a run that invoked the compiler twice
C17_Witness ==
    \E r \in RunIds : Done(r) /\ Len(invoked[r]) = 2 /\ CallStatuses(r) = <<0, 0>>

(***************************************************************************)
(* C18                                                                     *)
(***************************************************************************)
\* C18: on leaving cd()/tempdir() the previous working directory is restored
\* before the sandbox is deleted: when rmtree runs the working directory is
\* not the sandbox, and it is restored even when the deletion fails.
C18_RestoreBeforeCleanup ==
    \A r \in RunIds :
        /\ pc[r] = "cleanup" =>
              /\ oscwd[r] = HomeDir
              /\ oscwd[r] # dirpath[r]
              /\ ~IsUnder(oscwd[r], dirpath[r])
              /\ dirpath[r] \in dirs
        /\ \A k \in 1..Len(trace[r]) :
              trace[r][k].op = "rmtree" =>
                  /\ k > 1 /\ trace[r][k - 1].op = "chdir"
                  /\ oscwd[r] = HomeDir

\* the deletion failed, the sandbox is still there, the directory is restored
C18_Witness ==
    \E r \in RunIds :
        Done(r) /\ RmtreeRaised(r) /\ dirpath[r] \in dirs /\ oscwd[r] = HomeDir

(***************************************************************************)
(* C19                                                                     *)
(***************************************************************************)
\* run r has ended, with its sandbox torn down if it had one
Terminated(r) ==
    Done(r) /\ oscwd[r] = HomeDir /\ (Entered(r) => Happened(r, "rmtree"))

====
